---- MODULE Spec2Model ----
(***************************************************************************)
(* Model of the budget data engine of src/budget_app.py: the Transaction   *)
(* and Budget entities, the BudgetData store (create / update / delete /   *)
(* lookup, load / save, JSON import / export) and its aggregation queries. *)
(*                                                                         *)
(* Conventions                                                             *)
(*   - a Python str is the sequence of its code points, so that ordering,  *)
(*     lower(), strip() and parsing are computed, not assumed;             *)
(*   - a datetime.date is the triple <<year, month, day>>;                 *)
(*   - a float is a fixed-point integer counting thousandths (1.004 is     *)
(*     1004), and NegZero for -0.0, which equals 0.0 but is written        *)
(*     "-0.0"; round(x, 2) rounds the binary float nearest to the          *)
(*     thousandths, as Python does (round(1.005, 2) is 1.0);               *)
(*     float() of a text that writes another number (more decimals, a      *)
(*     million or more, inf, nan) answers the nearest number held and      *)
(*     says so in its exact field;                                         *)
(*   - a file is what its path holds: nothing, a JSON document, or the     *)
(*     empty text a failed write leaves behind;                            *)
(*   - a JSON object / Python dict is a function whose DOMAIN is the set   *)
(*     of keys present;                                                    *)
(*   - an operation that may raise returns a record whose result field is  *)
(*     "ok" or the name of the exception, next to the state it leaves.     *)
(* Intermediate values are passed as operator arguments, one operator per  *)
(* step of the code.                                                       *)
(***************************************************************************)
EXTENDS Integers, Sequences, FiniteSets, TLC

(***************************************************************************)
(* Bounds of the model                                                     *)
(***************************************************************************)
\* number of store operations in a run
MaxOps == 3

(***************************************************************************)
(* Text                                                                    *)
(***************************************************************************)
Empty == << >>
Income == <<105, 110, 99, 111, 109, 101>>             \* "income"
Expense == <<101, 120, 112, 101, 110, 115, 101>>      \* "expense"
Autre == <<65, 117, 116, 114, 101>>                   \* "Autre"
NoneStr == <<78, 111, 110, 101>>                      \* "None" = str(None)
Bonus == <<98, 111, 110, 117, 115>>                   \* "bonus"

Hyphen == 45
Slash == 47
Dot == 46
Plus == 43

Underscore == 95
LetterE == 101

\* the code point of the digit zero of every block of Unicode decimal digits
\* (category Nd of the Unicode data of this Python, 14.0); each block holds
\* its ten digits in order
DigitZeros ==
    {48, 1632, 1776, 1984, 2406, 2534, 2662, 2790, 2918, 3046, 3174, 3302,
     3430, 3558, 3664, 3792, 3872, 4160, 4240, 6112, 6160, 6470, 6608, 6784,
     6800, 6992, 7088, 7232, 7248, 42528, 43216, 43264, 43472, 43504, 43600,
     44016, 65296, 66720, 68912, 69734, 69872, 69942, 70096, 70384, 70736,
     70864, 71248, 71360, 71472, 71904, 72016, 72784, 73040, 73120, 92768,
     92864, 93008, 120782, 120792, 120802, 120812, 120822, 123200, 123632,
     125264, 130032}

\* a decimal digit as \d of re, int() and float() see it
IsDigit(c) == c \in 48..57 \/ \E z \in DigitZeros : c \in z..(z + 9)

\* the value of a decimal digit
DigitOf(c) ==
    IF c \in 48..57 THEN c - 48
    ELSE c - (CHOOSE z \in DigitZeros : c \in z..(z + 9))

\* str.isspace(): the white space str.strip() removes
IsSpace(c) ==
    \/ c \in 9..13
    \/ c \in 28..32
    \/ c \in {133, 160, 5760}
    \/ c \in 8192..8202
    \/ c \in {8232, 8233, 8239, 8287, 12288}

Min(a, b) == IF a <= b THEN a ELSE b

\* The float -0.0, which repr() and the arithmetic tell from 0.0: every
\* other float the model holds is its number of thousandths.
NegZero == -2000000000

\* the number a float stands for: -0.0 == 0.0
Val(x) == IF x = NegZero THEN 0 ELSE x

\* abs(x)
Abs(x) == IF x = NegZero THEN 0 ELSE IF x < 0 THEN -x ELSE x

\* -x on floats: -(0.0) is -0.0
Neg(x) == IF x = NegZero THEN 0 ELSE IF x = 0 THEN NegZero ELSE -x

\* the least and the greatest element of a non-empty set of integers
Least(S) == CHOOSE i \in S : \A j \in S : i <= j

Greatest(S) == CHOOSE i \in S : \A j \in S : j <= i

\* str.__lt__ : lexicographic comparison of code points
StrLT(s, t) ==
    \/ \E i \in 1..Min(Len(s), Len(t)) :
          /\ \A j \in 1..(i - 1) : s[j] = t[j]
          /\ s[i] < t[i]
    \/ /\ Len(s) < Len(t)
       /\ \A j \in 1..Len(s) : s[j] = t[j]

\* str.lower() on ASCII and Latin-1 letters
LowerChar(c) ==
    IF c \in 65..90 \/ (c \in 192..222 /\ c # 215) THEN c + 32 ELSE c

Lower(s) == [i \in 1..Len(s) |-> LowerChar(s[i])]

\* str.strip(): keep is the set of positions that hold no white space
StripTo(s, keep) ==
    IF keep = {} THEN Empty ELSE SubSeq(s, Least(keep), Greatest(keep))

Strip(s) == StripTo(s, {i \in 1..Len(s) : ~IsSpace(s[i])})

AllDigits(s) == \A i \in 1..Len(s) : IsDigit(s[i])

\* the number a string of decimal digits writes
RECURSIVE DigitsVal(_)
DigitsVal(s) ==
    IF s = Empty THEN 0
    ELSE 10 * DigitsVal(SubSeq(s, 1, Len(s) - 1)) + DigitOf(s[Len(s)])

\* the decimal digits of n, zero-padded to width w (as "%04d", "%02d")
RECURSIVE Digits(_, _)
Digits(n, w) ==
    IF w <= 1 /\ n < 10 THEN <<48 + n>>
    ELSE Append(Digits(n \div 10, w - 1), 48 + (n % 10))

(***************************************************************************)
(* Dates                                                                   *)
(***************************************************************************)
IsLeap(y) == (y % 4 = 0 /\ y % 100 # 0) \/ y % 400 = 0

DaysIn(y, m) ==
    IF m = 2 THEN (IF IsLeap(y) THEN 29 ELSE 28)
    ELSE IF m \in {4, 6, 9, 11} THEN 30 ELSE 31

\* tuple comparison of datetime.date
DateLT(a, b) ==
    \/ a[1] < b[1]
    \/ a[1] = b[1] /\ a[2] < b[2]
    \/ a[1] = b[1] /\ a[2] = b[2] /\ a[3] < b[3]

NoDate == <<0, 0, 0>>

\* the outcome of a parse: [ok, d]
DateFail == [ok |-> FALSE, d |-> NoDate]

\* date(y, m, d): ValueError unless it is a calendar date
MakeDate(y, m, d) ==
    IF y >= 1 /\ m \in 1..12 /\ d >= 1 /\ d <= DaysIn(y, m)
    THEN [ok |-> TRUE, d |-> <<y, m, d>>]
    ELSE DateFail

\* the text %m matches: 1[0-2]|0[1-9]|[1-9]
MonthField(f) ==
    \/ Len(f) = 2 /\ f[1] = 49 /\ f[2] \in 48..50
    \/ Len(f) = 2 /\ f[1] = 48 /\ f[2] \in 49..57
    \/ Len(f) = 1 /\ f[1] \in 49..57

\* the text %d matches: 3[0-1]|[1-2]\d|0[1-9]|[1-9]| [1-9]
DayField(f) ==
    \/ Len(f) = 2 /\ f[1] = 51 /\ f[2] \in 48..49
    \/ Len(f) = 2 /\ f[1] \in 49..50 /\ IsDigit(f[2])
    \/ Len(f) = 2 /\ f[1] \in {48, 32} /\ f[2] \in 49..57
    \/ Len(f) = 1 /\ f[1] \in 49..57

\* the three fields of a strptime match: %Y is \d\d\d\d; each field is
\* read with int(), which ignores the space %d allows before a digit
DateOfFields(fy, fm, fd) ==
    IF Len(fy) = 4 /\ AllDigits(fy) /\ MonthField(fm) /\ DayField(fd)
    THEN MakeDate(DigitsVal(fy), DigitsVal(fm), DigitsVal(Strip(fd)))
    ELSE DateFail

\* value split at the separators at positions p1 < p2
StrptimeSplit(value, p1, p2, yearFirst) ==
    IF yearFirst
    THEN DateOfFields(SubSeq(value, 1, p1 - 1), SubSeq(value, p1 + 1, p2 - 1),
                      SubSeq(value, p2 + 1, Len(value)))
    ELSE DateOfFields(SubSeq(value, p2 + 1, Len(value)), SubSeq(value, p1 + 1, p2 - 1),
                      SubSeq(value, 1, p1 - 1))

StrptimeAt(value, pos, yearFirst) ==
    IF Cardinality(pos) # 2 THEN DateFail
    ELSE StrptimeSplit(value, Least(pos), Greatest(pos), yearFirst)

\* datetime.strptime(value, fmt).date() for the four formats of parse_date:
\* three fields separated by sep, the year first or last
Strptime(value, sep, yearFirst) ==
    StrptimeAt(value, {i \in 1..Len(value) : value[i] = sep}, yearFirst)

\* the loop of parse_date over its formats: the first that matches
FirstMatch(a, b, c, d) ==
    IF a.ok THEN a ELSE IF b.ok THEN b ELSE IF c.ok THEN c ELSE d

ParseStripped(value) ==
    FirstMatch(Strptime(value, Hyphen, TRUE),       \* %Y-%m-%d
               Strptime(value, Slash, FALSE),       \* %d/%m/%Y
               Strptime(value, Hyphen, FALSE),      \* %d-%m-%Y
               Strptime(value, Slash, TRUE))        \* %Y/%m/%d

\* parse_date: ok = FALSE stands for the ValueError
parse_date(text) == ParseStripped(Strip(text))

\* date.isoformat(): the year is zero-padded to four digits
isoformat(d) ==
    Digits(d[1], 4) \o <<Hyphen>> \o Digits(d[2], 2) \o <<Hyphen>> \o Digits(d[3], 2)

\* date.strftime("%Y-%m-%d"): %Y is formatted by the C library, which in
\* this build (glibc) writes the year without padding
strftime(d) ==
    Digits(d[1], 1) \o <<Hyphen>> \o Digits(d[2], 2) \o <<Hyphen>> \o Digits(d[3], 2)

\* month_key: strftime("%Y-%m"), the year without padding as above
month_key(d) == Digits(d[1], 1) \o <<Hyphen>> \o Digits(d[2], 2)

(***************************************************************************)
(* Python values and numbers                                               *)
(***************************************************************************)
\* A Python value handed to the store: a number, a str, a date or None.
Num(v) == [k |-> "num", v |-> v, s |-> Empty, d |-> NoDate]
Str(s) == [k |-> "str", v |-> 0, s |-> s, d |-> NoDate]
DateV(d) == [k |-> "date", v |-> 0, s |-> Empty, d |-> d]
None == [k |-> "none", v |-> 0, s |-> Empty, d |-> NoDate]

\* bool(x) of such a value; the model passes no number where it is tested
Truthy(x) == x.k = "date" \/ (x.k = "str" /\ x.s # Empty)

\* the Python expression a or b
Or(a, b) == IF Truthy(a) THEN a ELSE b

\* str(x) of a str or of None
PyStr(x) == IF x.k = "str" THEN x.s ELSE NoneStr

\* dict.get(key, default)
Get(data, key, default) == IF key \in DOMAIN data THEN data[key] ELSE default

\* The outcome of float(): [ok, v, exact, ge0].  ok = FALSE stands for the
\* exception.  v counts thousandths; exact = FALSE says that the float is
\* not a whole number of thousandths below a million (more decimals, a
\* larger magnitude, inf, nan) and that v is only the nearest number the
\* model holds.  ge0 is what the comparison x >= 0 answers on the float
\* itself: FALSE for nan and for every negative float but -0.0.
FloatFail == [ok |-> FALSE, v |-> 0, exact |-> TRUE, ge0 |-> FALSE]

\* the number of zeros that lead the digits D
LeadZeros(D) ==
    Least({i \in 1..Len(D) : DigitOf(D[i]) # 0} \cup {Len(D) + 1}) - 1

\* The digits of 2^-1075 = 0.247...E-323, half the smallest float above
\* zero: a decimal text that writes no more than it is read as 0.0.
HalfMinFloat ==
    <<
      50, 52, 55, 48, 51, 50, 56, 50, 50, 57, 50, 48, 54, 50,
      51, 50, 55, 50, 48, 56, 56, 50, 56, 52, 51, 57, 54, 52,
      51, 52, 49, 49, 48, 54, 56, 54, 49, 56, 50, 53, 50, 57,
      57, 48, 49, 51, 48, 55, 49, 54, 50, 51, 56, 50, 50, 49,
      50, 55, 57, 50, 56, 52, 49, 50, 53, 48, 51, 51, 55, 55,
      53, 51, 54, 51, 53, 49, 48, 52, 51, 55, 53, 57, 51, 50,
      54, 52, 57, 57, 49, 56, 49, 56, 48, 56, 49, 55, 57, 57,
      54, 49, 56, 57, 56, 57, 56, 50, 56, 50, 51, 52, 55, 55,
      50, 50, 56, 53, 56, 56, 54, 53, 52, 54, 51, 51, 50, 56,
      51, 53, 53, 49, 55, 55, 57, 54, 57, 56, 57, 56, 49, 57,
      57, 51, 56, 55, 51, 57, 56, 48, 48, 53, 51, 57, 48, 57,
      51, 57, 48, 54, 51, 49, 53, 48, 51, 53, 54, 53, 57, 53,
      49, 53, 53, 55, 48, 50, 50, 54, 51, 57, 50, 50, 57, 48,
      56, 53, 56, 51, 57, 50, 52, 52, 57, 49, 48, 53, 49, 56,
      52, 52, 51, 53, 57, 51, 49, 56, 48, 50, 56, 52, 57, 57,
      51, 54, 53, 51, 54, 49, 53, 50, 53, 48, 48, 51, 49, 57,
      51, 55, 48, 52, 53, 55, 54, 55, 56, 50, 52, 57, 50, 49,
      57, 51, 54, 53, 54, 50, 51, 54, 54, 57, 56, 54, 51, 54,
      53, 56, 52, 56, 48, 55, 53, 55, 48, 48, 49, 53, 56, 53,
      55, 54, 57, 50, 54, 57, 57, 48, 51, 55, 48, 54, 51, 49,
      49, 57, 50, 56, 50, 55, 57, 53, 53, 56, 53, 53, 49, 51,
      51, 50, 57, 50, 55, 56, 51, 52, 51, 51, 56, 52, 48, 57,
      51, 53, 49, 57, 55, 56, 48, 49, 53, 53, 51, 49, 50, 52,
      54, 53, 57, 55, 50, 54, 51, 53, 55, 57, 53, 55, 52, 54,
      50, 50, 55, 54, 54, 52, 54, 53, 50, 55, 50, 56, 50, 55,
      50, 50, 48, 48, 53, 54, 51, 55, 52, 48, 48, 54, 52, 56,
      53, 52, 57, 57, 57, 55, 55, 48, 57, 54, 53, 57, 57, 52,
      55, 48, 52, 53, 52, 48, 50, 48, 56, 50, 56, 49, 54, 54,
      50, 50, 54, 50, 51, 55, 56, 53, 55, 51, 57, 51, 52, 53,
      48, 55, 51, 54, 51, 51, 57, 48, 48, 55, 57, 54, 55, 55,
      54, 49, 57, 51, 48, 53, 55, 55, 53, 48, 54, 55, 52, 48,
      49, 55, 54, 51, 50, 52, 54, 55, 51, 54, 48, 48, 57, 54,
      56, 57, 53, 49, 51, 52, 48, 53, 51, 53, 53, 51, 55, 52,
      53, 56, 53, 49, 54, 54, 54, 49, 49, 51, 52, 50, 50, 51,
      55, 54, 54, 54, 55, 56, 54, 48, 52, 49, 54, 50, 49, 53,
      57, 54, 56, 48, 52, 54, 49, 57, 49, 52, 52, 54, 55, 50,
      57, 49, 56, 52, 48, 51, 48, 48, 53, 51, 48, 48, 53, 55,
      53, 51, 48, 56, 52, 57, 48, 52, 56, 55, 54, 53, 51, 57,
      49, 55, 49, 49, 51, 56, 54, 53, 57, 49, 54, 52, 54, 50,
      51, 57, 53, 50, 52, 57, 49, 50, 54, 50, 51, 54, 53, 51,
      56, 56, 49, 56, 55, 57, 54, 51, 54, 50, 51, 57, 51, 55,
      51, 50, 56, 48, 52, 50, 51, 56, 57, 49, 48, 49, 56, 54,
      55, 50, 51, 52, 56, 52, 57, 55, 54, 54, 56, 50, 51, 53,
      48, 56, 57, 56, 54, 51, 51, 56, 56, 53, 56, 55, 57, 50,
      53, 54, 50, 56, 51, 48, 50, 55, 53, 53, 57, 57, 53, 54,
      53, 55, 53, 50, 52, 52, 53, 53, 53, 48, 55, 50, 53, 53,
      49, 56, 57, 51, 49, 51, 54, 57, 48, 56, 51, 54, 50, 53,
      52, 55, 55, 57, 49, 56, 54, 57, 52, 56, 54, 54, 55, 57,
      57, 52, 57, 54, 56, 51, 50, 52, 48, 52, 57, 55, 48, 53,
      56, 50, 49, 48, 50, 56, 53, 49, 51, 49, 56, 53, 52, 53,
      49, 51, 57, 54, 50, 49, 51, 56, 51, 55, 55, 50, 50, 56,
      50, 54, 49, 52, 53, 52, 51, 55, 54, 57, 51, 52, 49, 50,
      53, 51, 50, 48, 57, 56, 53, 57, 49, 51, 50, 55, 54, 54,
      55, 50, 51, 54, 51, 50, 56, 49, 50, 53 >>

\* whether the fraction 0.S is at most 0.T, S and T strings of digits
FracLE(S, T) ==
    \A i \in 1..Len(S) :
        (DigitOf(S[i]) > (IF i <= Len(T) THEN DigitOf(T[i]) ELSE 0))
            => \E j \in 1..(i - 1) :
                  j <= Len(T) /\ DigitOf(S[j]) < DigitOf(T[j])

\* whether float() rounds 0.D * 10^e to zero, D holding a digit other than 0
Underflows(D, e) ==
    \/ e - LeadZeros(D) < -323
    \/ /\ e - LeadZeros(D) = -323
       /\ FracLE(SubSeq(D, LeadZeros(D) + 1, Len(D)), HalfMinFloat)

\* the number with the digits D of which the first n stand left of the
\* thousandths' point, negated when neg, to the nearest thousandth
Scaled(D, n, neg) ==
    IF (\A i \in 1..Len(D) : DigitOf(D[i]) = 0) \/ Underflows(D, n - 3)
    THEN [ok |-> TRUE, v |-> IF neg THEN NegZero ELSE 0, exact |-> TRUE,
          ge0 |-> TRUE]
    ELSE IF n - LeadZeros(D) > 9
    THEN [ok |-> TRUE, v |-> IF neg THEN -999999999 ELSE 999999999,
          exact |-> FALSE, ge0 |-> ~neg]
    ELSE IF n < 0
    THEN [ok |-> TRUE, v |-> 0, exact |-> FALSE, ge0 |-> ~neg]
    ELSE [ok |-> TRUE,
          v |-> (IF neg THEN -1 ELSE 1)
                * ((IF n <= Len(D) THEN DigitsVal(SubSeq(D, LeadZeros(D) + 1, n))
                    ELSE DigitsVal(SubSeq(D, LeadZeros(D) + 1, Len(D)))
                         * 10 ^ (n - Len(D)))
                   + (IF n < Len(D) /\ DigitOf(D[n + 1]) >= 5 THEN 1 ELSE 0)),
          exact |-> \A i \in (n + 1)..Len(D) : DigitOf(D[i]) = 0,
          ge0 |-> ~neg]

\* integer digits ip, fraction digits fp, decimal exponent ex
ParseParts(ip, fp, ex, neg) ==
    IF AllDigits(ip) /\ AllDigits(fp) /\ Len(ip) + Len(fp) >= 1
    THEN Scaled(ip \o fp, Len(ip) + ex + 3, neg)
    ELSE FloatFail

\* the mantissa m: digits with at most one point among them, at the
\* positions dots
ParseAt(m, dots, ex, neg) ==
    IF dots = {} THEN ParseParts(m, Empty, ex, neg)
    ELSE IF Cardinality(dots) > 1 THEN FloatFail
    ELSE ParseParts(SubSeq(m, 1, Least(dots) - 1),
                    SubSeq(m, Least(dots) + 1, Len(m)), ex, neg)

\* text without its leading sign
Unsign(x) == IF x # Empty /\ x[1] \in {Plus, Hyphen} THEN Tail(x) ELSE x

\* The value of the exponent x ([sign] digits).  An exponent of ten digits
\* or more stands for a thousand million: no text is long enough for the
\* difference to show.
ExpVal(x) ==
    (IF x[1] = Hyphen THEN -1 ELSE 1)
    * (IF Len(Unsign(x)) - LeadZeros(Unsign(x)) > 9 THEN 1000000000
       ELSE DigitsVal(SubSeq(Unsign(x), LeadZeros(Unsign(x)) + 1,
                             Len(Unsign(x)))))

\* mantissa [e [sign] digits]: marks are the positions of the letter e
ParseExp(s, marks, neg) ==
    IF marks = {} THEN ParseAt(s, {i \in 1..Len(s) : s[i] = Dot}, 0, neg)
    ELSE IF Cardinality(marks) > 1 THEN FloatFail
    ELSE IF Unsign(SubSeq(s, Least(marks) + 1, Len(s))) = Empty
            \/ ~AllDigits(Unsign(SubSeq(s, Least(marks) + 1, Len(s))))
    THEN FloatFail
    ELSE ParseAt(SubSeq(s, 1, Least(marks) - 1),
                 {i \in 1..(Least(marks) - 1) : s[i] = Dot},
                 ExpVal(SubSeq(s, Least(marks) + 1, Len(s))), neg)

\* an underscore is allowed between two digits only
UnderscoresOk(s) ==
    \A i \in 1..Len(s) :
        s[i] = Underscore =>
            i > 1 /\ i < Len(s) /\ IsDigit(s[i - 1]) /\ IsDigit(s[i + 1])

\* low is the text in lower case: inf, infinity, nan or a decimal literal
ParseLiteral(low, neg) ==
    IF low \in {<<105, 110, 102>>, <<105, 110, 102, 105, 110, 105, 116, 121>>}
    THEN [ok |-> TRUE, v |-> IF neg THEN -999999999 ELSE 999999999,
          exact |-> FALSE, ge0 |-> ~neg]
    ELSE IF low = <<110, 97, 110>>
    THEN [ok |-> TRUE, v |-> 0, exact |-> FALSE, ge0 |-> FALSE]
    ELSE IF ~UnderscoresOk(low) THEN FloatFail
    ELSE ParseExp(SelectSeq(low, LAMBDA c : c # Underscore),
                  {i \in 1..Len(SelectSeq(low, LAMBDA c : c # Underscore)) :
                      SelectSeq(low, LAMBDA c : c # Underscore)[i] = LetterE},
                  neg)

\* the literal after the sign; neg says that the sign was a minus
ParseUnsigned(body, neg) == ParseLiteral(Lower(body), neg)

ParseSigned(t) ==
    IF t # Empty /\ t[1] = Hyphen THEN ParseUnsigned(Tail(t), TRUE)
    ELSE IF t # Empty /\ t[1] = Plus THEN ParseUnsigned(Tail(t), FALSE)
    ELSE ParseUnsigned(t, FALSE)

\* float(text): white space, [sign], then inf, infinity, nan (in any case)
\* or digits [. digits] [e [sign] digits] with a digit in the mantissa and
\* single underscores between digits; anything else is a ValueError.
\* The white space float() ignores around the text is that of str.isspace()
\* without the four ASCII separators 28..31.
ParseFloat(text) ==
    ParseSigned(StripTo(text, {i \in 1..Len(text) :
                                  ~IsSpace(text[i]) \/ text[i] \in 28..31}))

\* float(x): a str that is not a number raises ValueError, None and a date
\* raise TypeError (all ok = FALSE)
Float(x) ==
    IF x.k = "num"
    THEN [ok |-> TRUE, v |-> x.v, exact |-> TRUE, ge0 |-> Val(x.v) >= 0]
    ELSE IF x.k = "str" THEN ParseFloat(x.s)
    ELSE FloatFail

\* the exception float(x) raises when it fails
FloatError(x) == IF x.k = "str" THEN "ValueError" ELSE "TypeError"

\* 2^s modulo 1000
RECURSIVE Pow2Mod(_)
Pow2Mod(s) == IF s = 0 THEN 1 ELSE (2 * Pow2Mod(s - 1)) % 1000

\* The number s of binary places of the 53-bit significand of the float
\* m / 1000 (m > 0): 2^52 <= (m / 1000) * 2^s < 2^53.
Places(m) ==
    IF m >= 1000
    THEN 52 - Greatest({e \in 0..21 : 1000 * 2 ^ e <= m})
    ELSE 52 + Least({k \in 1..10 : m * 2 ^ k >= 1000})

\* Whether round(x, 2) rounds the float of m thousandths away from zero.
\* When m ends in 5 the float decides, being seldom m / 1000 itself: with r
\* the remainder of m * 2^s by 1000, what the exact significand leaves
\* behind, the float is m / 1000 when r = 0, which is when 125 divides m
\* (the tie then goes to the even hundredth), it lies below m / 1000 when
\* r < 500 and above it when r > 500 (r = 500 would need s < 3).
RoundsUp(m) ==
    IF m % 10 # 5 THEN m % 10 > 5
    ELSE IF m % 125 = 0 THEN (m \div 10) % 2 = 1
    ELSE ((m % 1000) * Pow2Mod(Places(m))) % 1000 > 500

\* round(x, 2) on thousandths: the float nearest to x / 1000 goes to the
\* nearest hundredth; a negative number that rounds to zero gives -0.0
Round2(x) ==
    IF x = NegZero THEN NegZero
    ELSE IF x < 0
    THEN Neg(((-x) \div 10) * 10 + (IF RoundsUp(-x) THEN 10 ELSE 0))
    ELSE (x \div 10) * 10 + (IF RoundsUp(x) THEN 10 ELSE 0)

(***************************************************************************)
(* Entities                                                                *)
(***************************************************************************)
\* str(uuid4()): the n-th identifier drawn, "u1", "u2", ...
Uuid(n) == <<117, 48 + n>>

\* Transaction.signed_amount
signed_amount(t) == IF t.type = Income THEN t.amount ELSE Neg(Abs(t.amount))

NoTrx ==
    [id |-> Empty, date |-> NoDate, description |-> Empty, category |-> Empty,
     amount |-> 0, type |-> Empty, notes |-> Empty]

\* str(data.get("id") or uuid4())
IdOf(data, nid) ==
    IF Truthy(Get(data, "id", None)) THEN PyStr(data["id"]) ELSE Uuid(nid)

\* whether from_dict draws an identifier
DrawsId(data) == ~Truthy(Get(data, "id", None))

\* the Transaction(...) call of from_dict once the date (dt) and the amount
\* (am) are converted.  Result [result, fresh, t]: result is "KeyError"
\* when "date" is missing, "ValueError" when it is unparseable, the error
\* of float() when the amount is not a number, else "ok".
TrxOfParsed(data, nid, dt, am) ==
    IF "date" \notin DOMAIN data
    THEN [result |-> "KeyError", fresh |-> DrawsId(data), t |-> NoTrx]
    ELSE IF ~dt.ok
    THEN [result |-> "ValueError", fresh |-> DrawsId(data), t |-> NoTrx]
    ELSE IF ~am.ok
    THEN [result |-> FloatError(Get(data, "amount", Num(0))),
          fresh |-> DrawsId(data), t |-> NoTrx]
    ELSE [result |-> "ok", fresh |-> DrawsId(data),
          t |-> [id |-> IdOf(data, nid),
                 date |-> dt.d,
                 description |-> PyStr(Get(data, "description", Str(Empty))),
                 category |-> PyStr(Get(data, "category", Str(Autre))),
                 amount |-> am.v,
                 type |-> PyStr(Get(data, "type", Str(Expense))),
                 notes |-> PyStr(Get(data, "notes", Str(Empty)))]]

\* Transaction.from_dict(data); nid is the next identifier uuid4 would draw
Transaction_from_dict(data, nid) ==
    TrxOfParsed(data, nid, parse_date(PyStr(Get(data, "date", None))),
                Float(Get(data, "amount", Num(0))))

\* Transaction.to_dict
Transaction_to_dict(t) ==
    [id |-> Str(t.id),
     date |-> Str(isoformat(t.date)),
     description |-> Str(t.description),
     category |-> Str(t.category),
     amount |-> Num(Round2(t.amount)),
     type |-> Str(t.type),
     notes |-> Str(t.notes)]

NoBudget == [id |-> Empty, category |-> Empty, monthly_limit |-> 0]

\* data.get("monthly_limit", data.get("limit", 0.0))
RawLimit(data) == Get(data, "monthly_limit", Get(data, "limit", Num(0)))

\* the Budget(...) call of from_dict once the limit (lim) is converted
BudOfParsed(data, nid, lim) ==
    IF ~lim.ok
    THEN [result |-> FloatError(RawLimit(data)), fresh |-> DrawsId(data), t |-> NoBudget]
    ELSE [result |-> "ok", fresh |-> DrawsId(data),
          t |-> [id |-> IdOf(data, nid),
                 category |-> PyStr(Get(data, "category", Str(Autre))),
                 monthly_limit |-> lim.v]]

\* Budget.from_dict(data)
Budget_from_dict(data, nid) == BudOfParsed(data, nid, Float(RawLimit(data)))

\* Budget.to_dict
Budget_to_dict(b) ==
    [id |-> Str(b.id),
     category |-> Str(b.category),
     monthly_limit |-> Num(Round2(b.monthly_limit))]

(***************************************************************************)
(* Sorting                                                                 *)
(***************************************************************************)
\* the sort key (t.date, t.description), compared as a tuple
TrxKeyLT(a, b) ==
    \/ DateLT(a.date, b.date)
    \/ a.date = b.date /\ StrLT(a.description, b.description)

\* the sort key b.category.lower()
BudKeyLT(a, b) == StrLT(Lower(a.category), Lower(b.category))

\* the least element of S, or default when S is empty
FirstOr(S, default) == IF S = {} THEN default ELSE Least(S)

InsertAt(sorted, x, p) ==
    SubSeq(sorted, 1, p - 1) \o <<x>> \o SubSeq(sorted, p, Len(sorted))

\* list.sort is stable: x goes before the first element of greater key
InsertTrx(sorted, x) ==
    InsertAt(sorted, x,
             FirstOr({i \in 1..Len(sorted) : TrxKeyLT(x, sorted[i])}, Len(sorted) + 1))

RECURSIVE SortTrx(_)
SortTrx(seq) ==
    IF seq = << >> THEN << >>
    ELSE InsertTrx(SortTrx(SubSeq(seq, 1, Len(seq) - 1)), seq[Len(seq)])

InsertBud(sorted, x) ==
    InsertAt(sorted, x,
             FirstOr({i \in 1..Len(sorted) : BudKeyLT(x, sorted[i])}, Len(sorted) + 1))

RECURSIVE SortBud(_)
SortBud(seq) ==
    IF seq = << >> THEN << >>
    ELSE InsertBud(SortBud(SubSeq(seq, 1, Len(seq) - 1)), seq[Len(seq)])

(***************************************************************************)
(* BudgetData: transactions                                                *)
(***************************************************************************)
\* BudgetData.get_transaction: the position of the first transaction with
\* that id, 0 for None
get_transaction(trxs, trx_id) ==
    FirstOr({i \in 1..Len(trxs) : trxs[i].id = trx_id}, 0)

\* the Transaction(...) call of add_transaction; amount is float(amount)
NewTrx(nid, a, amount) ==
    [id |-> Uuid(nid),
     date |-> a.date_value,
     description |-> a.description,
     category |-> IF a.category = Empty THEN Autre ELSE a.category,
     amount |-> Abs(amount),
     type |-> a.type_,
     notes |-> a.notes]

AddParsed(trxs, nid, a, am) ==
    IF am.ok
    THEN [result |-> "ok", transactions |-> SortTrx(Append(trxs, NewTrx(nid, a, am.v)))]
    ELSE [result |-> FloatError(a.amount), transactions |-> trxs]

\* BudgetData.add_transaction(date_value=.., description=.., category=..,
\* amount=.., type_=.., notes=..); a is the record of the arguments and nid
\* the identifier uuid4 draws.  Result [result, transactions].
add_transaction(trxs, nid, a) == AddParsed(trxs, nid, a, Float(a.amount))

\* an entity as an assignment leaves it
Ok(t) == [result |-> "ok", t |-> t]

Raised(error, t) == [result |-> error, t |-> t]

\* lines 189-194 of update_transaction
SetParsedDate(t, dres) ==
    IF dres.ok THEN Ok([t EXCEPT !.date = dres.d]) ELSE Raised("ValueError", t)

SetDateTo(t, value) ==
    IF value.k = "date" THEN Ok([t EXCEPT !.date = value.d])
    ELSE SetParsedDate(t, parse_date(PyStr(value)))

SetDate(t, updates) ==
    IF "date" \in DOMAIN updates \/ "date_value" \in DOMAIN updates
    THEN SetDateTo(t, Or(Get(updates, "date", None), Get(updates, "date_value", None)))
    ELSE Ok(t)

\* lines 195-196
SetDescription(t, updates) ==
    IF "description" \in DOMAIN updates
    THEN [t EXCEPT !.description = PyStr(updates["description"])] ELSE t

\* lines 197-198
SetCategory(t, updates) ==
    IF "category" \in DOMAIN updates
    THEN [t EXCEPT !.category = PyStr(updates["category"])] ELSE t

\* lines 199-200
SetAmountTo(t, raw, am) ==
    IF am.ok THEN Ok([t EXCEPT !.amount = Abs(am.v)]) ELSE Raised(FloatError(raw), t)

SetAmount(t, updates) ==
    IF "amount" \in DOMAIN updates
    THEN SetAmountTo(t, updates["amount"], Float(updates["amount"]))
    ELSE Ok(t)

\* lines 201-202
SetType(t, updates) ==
    IF "type" \in DOMAIN updates \/ "type_" \in DOMAIN updates
    THEN [t EXCEPT !.type = PyStr(Or(Get(updates, "type", None),
                                     Get(updates, "type_", None)))]
    ELSE t

\* update_transaction assigning the notes whether supplied or not
\* (updates.get("notes", "") in place of the membership test)
SetNotes_defaulting(t, updates) ==
    [t EXCEPT !.notes = PyStr(Get(updates, "notes", Str(Empty)))]

\* lines 203-204
SetNotes(t, updates) ==
    IF "notes" \in DOMAIN updates
    THEN [t EXCEPT !.notes = PyStr(updates["notes"])] ELSE t

\* the assignments after the amount's, unless it raised
AfterAmount(r, updates) ==
    IF r.result # "ok" THEN r ELSE Ok(SetNotes(SetType(r.t, updates), updates))

\* the assignments after the date's, unless it raised
AfterDate(r, updates) ==
    IF r.result # "ok" THEN r
    ELSE AfterAmount(SetAmount(SetCategory(SetDescription(r.t, updates), updates),
                               updates), updates)

\* the fields of one transaction after update_transaction's assignments,
\* which run in the order date, description, category, amount, type, notes
\* and stop at the first one that raises.  Result [result, t].
ApplyTrxUpdates(t0, updates) == AfterDate(SetDate(t0, updates), updates)

\* the transaction at position i is mutated in place
StoredTrx(trxs, i, r) ==
    [result |-> r.result, transactions |-> [trxs EXCEPT ![i] = r.t]]

\* update_transaction once get_transaction has answered i
UpdateTrxAt(trxs, i, updates) ==
    IF i = 0 THEN [result |-> "KeyError", transactions |-> trxs]
    ELSE StoredTrx(trxs, i, ApplyTrxUpdates(trxs[i], updates))

\* update_transaction returning silently when the id is unknown
update_transaction_silent(trxs, trx_id, updates) ==
    IF get_transaction(trxs, trx_id) = 0
    THEN [result |-> "ok", transactions |-> trxs]
    ELSE UpdateTrxAt(trxs, get_transaction(trxs, trx_id), updates)

\* BudgetData.update_transaction(trx_id, **updates).
\* Result [result, transactions].
update_transaction(trxs, trx_id, updates) ==
    UpdateTrxAt(trxs, get_transaction(trxs, trx_id), updates)

\* the list comprehension [x for x in xs if x.id != the_id]
RECURSIVE WithoutId(_, _)
WithoutId(xs, the_id) ==
    IF xs = << >> THEN << >>
    ELSE IF Head(xs).id # the_id THEN <<Head(xs)>> \o WithoutId(Tail(xs), the_id)
    ELSE WithoutId(Tail(xs), the_id)

\* the list without its element at position i (all of it when i = 0)
WithoutAt(xs, i) ==
    IF i = 0 THEN xs ELSE SubSeq(xs, 1, i - 1) \o SubSeq(xs, i + 1, Len(xs))

\* delete_transaction removing only the first match, as list.remove would
delete_transaction_first(trxs, trx_id) ==
    WithoutAt(trxs, get_transaction(trxs, trx_id))

\* BudgetData.delete_transaction
delete_transaction(trxs, trx_id) == WithoutId(trxs, trx_id)

(***************************************************************************)
(* BudgetData: budgets                                                     *)
(***************************************************************************)
\* BudgetData.get_budget
get_budget(buds, budget_id) ==
    FirstOr({i \in 1..Len(buds) : buds[i].id = budget_id}, 0)

\* the Budget(...) call of add_budget
NewBudget(nid, a, limit) ==
    [id |-> Uuid(nid),
     category |-> IF a.category = Empty THEN Autre ELSE a.category,
     monthly_limit |-> Abs(limit)]

AddBudgetParsed(buds, nid, a, lim) ==
    IF lim.ok
    THEN [result |-> "ok", budgets |-> SortBud(Append(buds, NewBudget(nid, a, lim.v)))]
    ELSE [result |-> FloatError(a.monthly_limit), budgets |-> buds]

\* BudgetData.add_budget(category=.., monthly_limit=..)
add_budget(buds, nid, a) == AddBudgetParsed(buds, nid, a, Float(a.monthly_limit))

\* lines 230-231 of update_budget
SetBudCategory(b, a) ==
    IF a.category.k # "none" THEN [b EXCEPT !.category = a.category.s] ELSE b

\* lines 232-233
SetLimitTo(b, raw, lim) ==
    IF lim.ok THEN Ok([b EXCEPT !.monthly_limit = Abs(lim.v)])
    ELSE Raised(FloatError(raw), b)

SetLimit(b, a) ==
    IF a.monthly_limit.k # "none"
    THEN SetLimitTo(b, a.monthly_limit, Float(a.monthly_limit))
    ELSE Ok(b)

\* the fields of one budget after update_budget's assignments
ApplyBudUpdates(b0, a) == SetLimit(SetBudCategory(b0, a), a)

StoredBud(buds, i, r) ==
    [result |-> r.result, budgets |-> [buds EXCEPT ![i] = r.t]]

UpdateBudAt(buds, i, a) ==
    IF i = 0 THEN [result |-> "KeyError", budgets |-> buds]
    ELSE StoredBud(buds, i, ApplyBudUpdates(buds[i], a))

\* BudgetData.update_budget(budget_id, category=None, monthly_limit=None);
\* a carries the two keyword arguments, None when not supplied.
update_budget(buds, budget_id, a) == UpdateBudAt(buds, get_budget(buds, budget_id), a)

\* BudgetData.delete_budget
delete_budget(buds, budget_id) == WithoutId(buds, budget_id)

(***************************************************************************)
(* BudgetData: persistence and JSON import / export                        *)
(***************************************************************************)
\* the identifier uuid4 draws next, after from_dict answered h
NidAfter(h, nid) == IF h.fresh THEN nid + 1 ELSE nid

\* the outcome of a list comprehension over from_dict: [result, items, nid]
Prepend(t, rest) ==
    IF rest.result # "ok" THEN rest
    ELSE [result |-> "ok", items |-> <<t>> \o rest.items, nid |-> rest.nid]

\* [Transaction.from_dict(t) for t in items]; the comprehension stops at
\* the first element that raises
RECURSIVE TrxFromDicts(_, _)

TrxCons(h, rest, nid) ==
    IF h.result # "ok"
    THEN [result |-> h.result, items |-> << >>, nid |-> NidAfter(h, nid)]
    ELSE Prepend(h.t, TrxFromDicts(rest, NidAfter(h, nid)))

TrxFromDicts(items, nid) ==
    IF items = << >> THEN [result |-> "ok", items |-> << >>, nid |-> nid]
    ELSE TrxCons(Transaction_from_dict(Head(items), nid), Tail(items), nid)

\* [Budget.from_dict(b) for b in items]
RECURSIVE BudFromDicts(_, _)

BudCons(h, rest, nid) ==
    IF h.result # "ok"
    THEN [result |-> h.result, items |-> << >>, nid |-> NidAfter(h, nid)]
    ELSE Prepend(h.t, BudFromDicts(rest, NidAfter(h, nid)))

BudFromDicts(items, nid) ==
    IF items = << >> THEN [result |-> "ok", items |-> << >>, nid |-> nid]
    ELSE BudCons(Budget_from_dict(Head(items), nid), Tail(items), nid)

\* A file is [exists, valid, doc]: whether the path names a file, whether
\* its text parses (json.loads) and the document it then holds.
\* No file at the path:
NoFile == [exists |-> FALSE, valid |-> FALSE, doc |-> << >>]

File(doc) == [exists |-> TRUE, valid |-> TRUE, doc |-> doc]

\* the file open(path, "w") leaves when nothing is written after it: empty
Truncated == [exists |-> TRUE, valid |-> FALSE, doc |-> << >>]

\* str.encode("utf8"): a lone surrogate raises UnicodeEncodeError
Encodable(s) == \A i \in 1..Len(s) : s[i] \notin 55296..57343

\* whether the text json.dumps gives for the entities encodes
Writable(trxs, buds) ==
    /\ \A i \in 1..Len(trxs) :
          /\ Encodable(trxs[i].id)
          /\ Encodable(trxs[i].description)
          /\ Encodable(trxs[i].category)
          /\ Encodable(trxs[i].type)
          /\ Encodable(trxs[i].notes)
    /\ \A i \in 1..Len(buds) :
          Encodable(buds[i].id) /\ Encodable(buds[i].category)

\* load extending the budget list, as import_json does
LoadBudgets_extending(newTrxs, buds, bs) ==
    IF bs.result # "ok"
    THEN [result |-> bs.result, transactions |-> newTrxs, budgets |-> buds,
          nid |-> bs.nid]
    ELSE [result |-> "ok", transactions |-> newTrxs, budgets |-> buds \o bs.items,
          nid |-> bs.nid]

\* line 162 of load: newTrxs is already assigned to self.transactions
LoadBudgets(newTrxs, buds, bs) ==
    IF bs.result # "ok"
    THEN [result |-> bs.result, transactions |-> newTrxs, budgets |-> buds,
          nid |-> bs.nid]
    ELSE [result |-> "ok", transactions |-> newTrxs, budgets |-> bs.items,
          nid |-> bs.nid]

\* line 161 of load
LoadTransactions(trxs, buds, raw, ts) ==
    IF ts.result # "ok"
    THEN [result |-> ts.result, transactions |-> trxs, budgets |-> buds,
          nid |-> ts.nid]
    ELSE LoadBudgets(ts.items, buds, BudFromDicts(Get(raw, "budgets", << >>), ts.nid))

\* BudgetData.load: file is the document at storage_path.
\* Result [result, transactions, budgets, nid].
load(trxs, buds, file, nid) ==
    IF ~file.exists
    THEN [result |-> "ok", transactions |-> trxs, budgets |-> buds, nid |-> nid]
    ELSE IF ~file.valid
    THEN [result |-> "JSONDecodeError", transactions |-> trxs, budgets |-> buds,
          nid |-> nid]
    ELSE LoadTransactions(trxs, buds, file.doc,
                          TrxFromDicts(Get(file.doc, "transactions", << >>), nid))

\* import_json replacing the collections, as load does
ImportBudgets_replacing(trxs, buds, items, bs) ==
    IF bs.result # "ok"
    THEN [result |-> bs.result, transactions |-> trxs, budgets |-> buds,
          nid |-> bs.nid]
    ELSE [result |-> "ok",
          transactions |-> SortTrx(items),
          budgets |-> SortBud(bs.items),
          nid |-> bs.nid]

\* lines 344-347 of import_json: both lists are deserialized (items, bs)
ImportBudgets(trxs, buds, items, bs) ==
    IF bs.result # "ok"
    THEN [result |-> bs.result, transactions |-> trxs, budgets |-> buds,
          nid |-> bs.nid]
    ELSE [result |-> "ok",
          transactions |-> SortTrx(trxs \o items),
          budgets |-> SortBud(buds \o bs.items),
          nid |-> bs.nid]

\* line 343 of import_json
ImportTransactions(trxs, buds, raw, ts) ==
    IF ts.result # "ok"
    THEN [result |-> ts.result, transactions |-> trxs, budgets |-> buds,
          nid |-> ts.nid]
    ELSE ImportBudgets(trxs, buds, ts.items,
                       BudFromDicts(Get(raw, "budgets", << >>), ts.nid))

\* BudgetData.import_json(path): file is the file at path; read_text
\* raises when there is none and json.loads when its text does not parse
import_json(trxs, buds, file, nid) ==
    IF ~file.exists
    THEN [result |-> "FileNotFoundError", transactions |-> trxs, budgets |-> buds,
          nid |-> nid]
    ELSE IF ~file.valid
    THEN [result |-> "JSONDecodeError", transactions |-> trxs, budgets |-> buds,
          nid |-> nid]
    ELSE ImportTransactions(trxs, buds, file.doc,
                            TrxFromDicts(Get(file.doc, "transactions", << >>), nid))

\* BudgetData.export_json(path): dir tells whether the directory of path
\* exists and file is what path holds.  Result [result, file], file being
\* what path holds afterwards.  write_text opens the file, which fails
\* without the directory and empties the file otherwise, and then encodes
\* the text, which fails on a lone surrogate before anything is written.
export_json(trxs, buds, dir, file) ==
    IF ~dir THEN [result |-> "FileNotFoundError", file |-> file]
    ELSE IF ~Writable(trxs, buds)
    THEN [result |-> "UnicodeEncodeError", file |-> Truncated]
    ELSE [result |-> "ok",
          file |-> File([transactions |->
                            [i \in 1..Len(trxs) |-> Transaction_to_dict(trxs[i])],
                         budgets |->
                            [i \in 1..Len(buds) |-> Budget_to_dict(buds[i])]])]

\* BudgetData.save: result [result, file], file being what storage_path
\* holds afterwards.  The directory is created first; write_text then
\* empties the file and fails on a lone surrogate before anything is
\* written.  The timestamp of the payload is informational and no
\* operation reads it.
save(trxs, buds) ==
    IF ~Writable(trxs, buds)
    THEN [result |-> "UnicodeEncodeError", file |-> Truncated]
    ELSE [result |-> "ok",
          file |-> File([transactions |->
                            [i \in 1..Len(trxs) |-> Transaction_to_dict(trxs[i])],
                         budgets |->
                            [i \in 1..Len(buds) |-> Budget_to_dict(buds[i])],
                         updated_at |-> Str(Empty)])]

(***************************************************************************)
(* BudgetData: CSV import / export                                         *)
(*                                                                         *)
(* A CSV file is modelled as csv.DictReader and csv.DictWriter see it: the *)
(* column names of its header line and, for every further line, the        *)
(* sequence of its cells (the empty sequence for an empty line).           *)
(***************************************************************************)
SansLibelle ==                                          \* "(sans libellé)"
    <<40, 115, 97, 110, 115, 32, 108, 105, 98, 101, 108, 108, 233, 41>>

Csv(header, rows) == [header |-> header, rows |-> rows]

\* the value DictReader gives a column: the cell under the last header field
\* of that name, None when the line is too short to have it
CellAt(cells, i) == IF i <= Len(cells) THEN Str(cells[i]) ELSE None

\* the dict DictReader yields for one line (cells beyond the header go under
\* the key None, which import_csv never reads)
DictRow(header, cells) ==
    [c \in {header[i] : i \in 1..Len(header)} |->
        CellAt(cells, Greatest({i \in 1..Len(header) : header[i] = c}))]

\* row.get(k1, row.get(k2, default))
RowGet(row, k1, k2, default) == Get(row, k1, Get(row, k2, default))

\* lines 300-307 of import_csv: the row is skipped when parse_date or float
\* raises; parse_date(None) raises AttributeError and float(None) TypeError
Skipped(dateCell, amountCell) ==
    \/ dateCell.k # "str"
    \/ ~parse_date(dateCell.s).ok
    \/ ~Float(amountCell).ok

\* lines 311-312 of import_csv; ge0 is what amount >= 0 answers
TypeBySign(type_, ge0) ==
    IF type_ \in {Income, Expense} THEN type_
    ELSE IF ge0 THEN Income ELSE Expense

\* the keyword arguments of the add_transaction call of import_csv; am is
\* the outcome of float() on the amount cell
CsvArgs(dt, description, category, am, type_) ==
    [date_value |-> dt,
     description |-> IF Truthy(description) THEN description.s ELSE SansLibelle,
     category |-> IF category.k = "str" THEN category.s ELSE Empty,
     amount |-> Num(Abs(am.v)),
     type_ |-> TypeBySign(type_, am.ge0),
     notes |-> Empty]

\* the loop of import_csv over the lines left, the store holding trxs and
\* added rows being counted.  Result [result, transactions, added, nid]:
\* result is "AttributeError" when a row has no cell in its type column
\* (None has no lower()), which ends the import with the rows before it added.
RECURSIVE CsvLoop(_, _, _, _, _)

CsvAccept(header, rest, trxs, nid, added, row, type_) ==
    IF type_.k # "str"
    THEN [result |-> "AttributeError", transactions |-> trxs, added |-> added,
          nid |-> nid]
    ELSE CsvLoop(header, rest,
                 add_transaction(trxs, nid,
                     CsvArgs(parse_date(RowGet(row, "Date", "date", Str(Empty)).s).d,
                             RowGet(row, "Description", "description", Str(Empty)),
                             RowGet(row, "Catégorie", "category", Str(Autre)),
                             Float(RowGet(row, "Montant", "amount", Num(0))),
                             Lower(type_.s))).transactions,
                 nid + 1, added + 1)

CsvRow(header, rest, trxs, nid, added, row) ==
    IF Skipped(RowGet(row, "Date", "date", Str(Empty)),
               RowGet(row, "Montant", "amount", Num(0)))
    THEN CsvLoop(header, rest, trxs, nid, added)
    ELSE CsvAccept(header, rest, trxs, nid, added, row,
                   RowGet(row, "Type", "type", Str(Expense)))

CsvLoop(header, rows, trxs, nid, added) ==
    IF rows = << >>
    THEN [result |-> "ok", transactions |-> trxs, added |-> added, nid |-> nid]
    ELSE IF Head(rows) = << >>                 \* DictReader skips empty lines
    THEN CsvLoop(header, Tail(rows), trxs, nid, added)
    ELSE CsvRow(header, Tail(rows), trxs, nid, added, DictRow(header, Head(rows)))

\* BudgetData.import_csv(path): file is the CSV file at path
import_csv(trxs, file, nid) == CsvLoop(file.header, file.rows, trxs, nid, 0)

\* the digits after the point of repr(float), f in thousandths
FracDigits(f) ==
    IF f % 100 = 0 THEN Digits(f \div 100, 1)
    ELSE IF f % 10 = 0 THEN Digits(f \div 10, 2)
    ELSE Digits(f, 3)

\* repr(x) of a float, as csv.writer writes it; x in thousandths
FloatRepr(x) ==
    (IF x < 0 THEN <<Hyphen>> ELSE Empty)
    \o Digits(Abs(x) \div 1000, 1) \o <<Dot>> \o FracDigits(Abs(x) % 1000)

\* the Montant cell: str(trx.signed_amount), "-0.0" for the float -0.0 (a
\* zero amount that is not an income, an income that holds -0.0)
Montant(t) == FloatRepr(signed_amount(t))

\* the line export_csv writes for one transaction
CsvLine(t) ==
    <<strftime(t.date), t.description, t.category, Montant(t),
      IF t.type = Income THEN Income ELSE Expense, t.notes>>

\* the first transaction whose line does not encode (a lone surrogate in
\* its description, category or notes), Len(trxs) + 1 when there is none
FirstUnwritable(trxs) ==
    Least({i \in 1..Len(trxs) :
              ~(/\ Encodable(trxs[i].description)
                /\ Encodable(trxs[i].category)
                /\ Encodable(trxs[i].notes))}
          \cup {Len(trxs) + 1})

\* BudgetData.export_csv(path), path lying in a directory that exists.
\* Result [result, csv], csv being the file path holds afterwards: the
\* header and the lines written before the first that does not encode,
\* which ends the export with UnicodeEncodeError.
export_csv(trxs) ==
    [result |-> IF FirstUnwritable(trxs) > Len(trxs) THEN "ok"
                ELSE "UnicodeEncodeError",
     csv |-> Csv(<<"Date", "Description", "Catégorie", "Montant", "Type", "Notes">>,
                 [i \in 1..(FirstUnwritable(trxs) - 1) |-> CsvLine(trxs[i])])]

(***************************************************************************)
(* BudgetData: aggregation queries                                         *)
(***************************************************************************)
\* BudgetData.transactions_for_month(month); month is None or a str, and a
\* falsy month (None, "") selects every transaction
RECURSIVE transactions_for_month(_, _)
transactions_for_month(trxs, month) ==
    IF trxs = << >> THEN << >>
    ELSE IF ~Truthy(month) \/ month_key(Head(trxs).date) = month.s
    THEN <<Head(trxs)>> \o transactions_for_month(Tail(trxs), month)
    ELSE transactions_for_month(Tail(trxs), month)

\* sum(t.amount for t in items if t.type == type)
RECURSIVE SumAmount(_, _)
SumAmount(items, type) ==
    IF items = << >> THEN 0
    ELSE (IF Head(items).type = type THEN Val(Head(items).amount) ELSE 0)
         + SumAmount(Tail(items), type)

\* sum(t.signed_amount for t in items)
RECURSIVE SumSigned(_)
SumSigned(items) ==
    IF items = << >> THEN 0
    ELSE Val(signed_amount(Head(items))) + SumSigned(Tail(items))

\* lines 254-257 of monthly_summary
SummaryOf(items) ==
    [incomes |-> SumAmount(items, Income),
     expenses |-> SumAmount(items, Expense),
     balance |-> SumSigned(items)]

\* BudgetData.monthly_summary(month)
monthly_summary(trxs, month) == SummaryOf(transactions_for_month(trxs, month))

\* totals.get(category, 0.0)
TotalOf(totals, category) ==
    IF category \in DOMAIN totals THEN totals[category] ELSE 0

\* totals[category] = totals.get(category, 0.0) + amount; 0.0 + -0.0 is 0.0
AddTotal(totals, category, amount) ==
    [c \in DOMAIN totals \cup {category} |->
        IF c = category THEN TotalOf(totals, category) + Val(amount) ELSE totals[c]]

\* lines 262-266 of category_totals for one transaction
CountTrx(totals, trx, for_expenses) ==
    IF \/ for_expenses /\ trx.type # Expense
       \/ ~for_expenses /\ trx.type # Income
    THEN totals
    ELSE AddTotal(totals, trx.category, Abs(signed_amount(trx)))

\* the loop of category_totals over items: totals is the dict built so far
RECURSIVE CategoryLoop(_, _, _)
CategoryLoop(items, for_expenses, totals) ==
    IF items = << >> THEN totals
    ELSE CategoryLoop(Tail(items), for_expenses,
                      CountTrx(totals, Head(items), for_expenses))

\* BudgetData.category_totals(month, for_expenses=..)
category_totals(trxs, month, for_expenses) ==
    CategoryLoop(transactions_for_month(trxs, month), for_expenses, << >>)

\* the loop of monthly_balances: buckets is the dict built so far
\* (setdefault(key, 0.0) followed by += is get(key, 0.0) + amount)
RECURSIVE BalanceLoop(_, _)
BalanceLoop(items, buckets) ==
    IF items = << >> THEN buckets
    ELSE BalanceLoop(Tail(items),
                     AddTotal(buckets, month_key(Head(items).date),
                              signed_amount(Head(items))))

\* sorted(..) taking the greatest key first
SmallestKey_greatest(keys) == CHOOSE k \in keys : \A o \in keys \ {k} : StrLT(o, k)

\* the key sorted(buckets.items()) puts first
SmallestKey(keys) == CHOOSE k \in keys : \A o \in keys \ {k} : StrLT(k, o)

\* sorted(buckets.items()): the (key, value) pairs in ascending key order
RECURSIVE SortedItems(_, _)

ItemsFrom(buckets, keys, k) ==
    << <<k, buckets[k]>> >> \o SortedItems(buckets, keys \ {k})

SortedItems(buckets, keys) ==
    IF keys = {} THEN << >> ELSE ItemsFrom(buckets, keys, SmallestKey(keys))

BucketItems(buckets) == SortedItems(buckets, DOMAIN buckets)

\* BudgetData.monthly_balances()
monthly_balances(trxs) == BucketItems(BalanceLoop(trxs, << >>))

\* spent / monthly_limit capped by min(1.0, ..), as the fraction [n, d], d > 0
Fraction(n, d) == IF Val(n) >= d THEN [n |-> 1, d |-> 1] ELSE [n |-> n, d |-> d]

\* line 282 of budget_analysis; 0.0 divided by a negative limit is -0.0
Ratio(spent, monthly_limit) ==
    IF Val(monthly_limit) = 0 THEN [n |-> 0, d |-> 1]
    ELSE IF monthly_limit < 0 THEN Fraction(Neg(spent), -monthly_limit)
    ELSE Fraction(spent, monthly_limit)

\* the row budget_analysis appends for one budget; -0.0 - 0.0 is -0.0
RowOf(budget, spent) ==
    [budget |-> budget,
     spent |-> spent,
     remaining |-> IF budget.monthly_limit = NegZero /\ spent = 0 THEN NegZero
                   ELSE Val(budget.monthly_limit) - spent,
     ratio |-> Ratio(spent, budget.monthly_limit)]

\* analysis.sort(key=lambda item: item["budget"].category.lower()), stable
InsertRow(sorted, x) ==
    InsertAt(sorted, x,
             FirstOr({i \in 1..Len(sorted) : BudKeyLT(x.budget, sorted[i].budget)},
                     Len(sorted) + 1))

RECURSIVE SortRows(_)
SortRows(seq) ==
    IF seq = << >> THEN << >>
    ELSE InsertRow(SortRows(SubSeq(seq, 1, Len(seq) - 1)), seq[Len(seq)])

AnalysisOf(buds, totals) ==
    SortRows([i \in 1..Len(buds) |-> RowOf(buds[i], TotalOf(totals, buds[i].category))])

\* BudgetData.budget_analysis(month)
budget_analysis(trxs, buds, month) ==
    AnalysisOf(buds, category_totals(trxs, month, TRUE))

(***************************************************************************)
(* Inputs                                                                  *)
(***************************************************************************)
D1 == <<2024, 11, 30>>
D2 == <<2024, 12, 5>>

Ta == <<97>>                                           \* "a"
TB == <<66>>                                           \* "B"
Tb == <<98>>                                           \* "b"
TC == <<67>>                                           \* "C"
Tn == <<110>>                                          \* "n"
Tk == <<107>>                                          \* "k"
Tm == <<109>>                                          \* "m"
Tzz == <<122, 122>>                                    \* "zz"
Tabc == <<97, 98, 99>>                                 \* "abc"
T2p5 == <<50, 46, 53>>                                 \* "2.5"
TDmy == <<48, 54, 47, 49, 50, 47, 50, 48, 50, 52>>     \* "06/12/2024"
TBadDate == <<50, 48, 50, 52, 45, 49, 51, 45, 48, 49>> \* "2024-13-01"
\* "0999-12- 5" with an Arabic-Indic zero: a year below 1000, a day padded
\* with a space
TOldDate == <<1632, 57, 57, 57, 45, 49, 50, 45, 32, 53>>
TExp == <<49, 95, 48, 69, 45, 49>>                     \* "1_0E-1"
Tq == <<113>>                                          \* "q"

\* keyword arguments of add_transaction
TrxInputs ==
    { [date_value |-> D2, description |-> Ta, category |-> Tb,
       amount |-> Num(1004), type_ |-> Expense, notes |-> Empty],
      [date_value |-> D1, description |-> TB, category |-> TC,
       amount |-> Num(-2000), type_ |-> Income, notes |-> Tn],
      [date_value |-> D2, description |-> TB, category |-> Empty,
       amount |-> Str(T2p5), type_ |-> Bonus, notes |-> Empty],
      [date_value |-> D1, description |-> Ta, category |-> Tb,
       amount |-> Str(Tabc), type_ |-> Expense, notes |-> Empty] }

\* keyword arguments of update_transaction
TrxUpdates ==
    { [date_value |-> Str(TDmy)],
      [description |-> Str(TB), category |-> Str(Empty), amount |-> Num(-3000)],
      [type |-> Str(Empty), type_ |-> Str(Bonus), notes |-> Str(Tn)],
      [date |-> Str(isoformat(D1)), amount |-> Str(Tabc)],
      [date |-> DateV(D1), type_ |-> Str(Income)] }

\* keyword arguments of add_budget
BudInputs ==
    { [category |-> Tb, monthly_limit |-> Num(1500)],
      [category |-> TC, monthly_limit |-> Num(-2004)],
      [category |-> Empty, monthly_limit |-> Str(Tabc)] }

\* keyword arguments of update_budget
BudUpdates ==
    { [category |-> Str(<<100>>), monthly_limit |-> None],       \* "d"
      [category |-> None, monthly_limit |-> Num(-500)],
      [category |-> Str(Ta), monthly_limit |-> Str(Tabc)] }

\* documents found on disk that the store did not write itself
DocPlain ==
    [transactions |->
        << [id |-> Str(Tk), date |-> Str(isoformat(D2)), description |-> Str(Ta),
            category |-> Str(Tb), amount |-> Num(-1500), type |-> Str(Expense),
            notes |-> Str(Empty)],
           [id |-> Str(Tq), date |-> Str(TOldDate), description |-> Str(Ta),
            category |-> Str(Tb), amount |-> Str(TExp), type |-> Str(Income),
            notes |-> Str(Empty)] >>,
     budgets |->
        << [id |-> Str(Tm), category |-> Str(Tb), monthly_limit |-> Num(-1000)] >>]

DocDefaults ==
    [transactions |-> << [date |-> Str(TDmy)], [id |-> Str(Empty), date |-> Str(isoformat(D1)),
                                                description |-> Str(TB)] >>,
     budgets |-> << [limit |-> Num(2000)], [id |-> Str(Tm), category |-> Str(TB)] >>]

DocBadBudget ==
    [transactions |->
        << [id |-> Str(Tk), date |-> Str(isoformat(D1)), amount |-> Num(1000),
            type |-> Str(Income)] >>,
     budgets |-> << [category |-> Str(Tb), monthly_limit |-> Str(Tabc)] >>]

DocBadDate ==
    [transactions |-> << [id |-> Str(Tk), date |-> Str(TBadDate)] >>]

\* an income of -0.0, then an expense whose amount is a tie of round(x, 2)
\* and whose notes are a lone surrogate, which no file can hold
TNegZero == <<45, 48>>                                 \* "-0"
TSurrogate == <<55357>>                                \* "\ud83d"

DocOdd ==
    [transactions |->
        << [id |-> Str(Tq), date |-> Str(isoformat(D1)), description |-> Str(Ta),
            category |-> Str(Tb), amount |-> Str(TNegZero), type |-> Str(Income),
            notes |-> Str(Empty)],
           [id |-> Str(Tk), date |-> Str(isoformat(D2)), description |-> Str(Ta),
            category |-> Str(Tb), amount |-> Num(1005), type |-> Str(Expense),
            notes |-> Str(TSurrogate)] >>]

Docs == {DocPlain, DocDefaults, DocBadBudget, DocBadDate, DocOdd}

\* CSV files found on disk that the store did not write itself
TIncomeCap == <<73, 110, 99, 111, 109, 101>>           \* "Income"
T1 == <<49>>                                           \* "1"
T2 == <<50>>                                           \* "2"
TNeg == <<45, 49, 46, 48, 48, 52>>                     \* "-1.004"

\* localized header: a bad date, an unknown type with a blank description
\* and category, an empty line, a blank type with a negative amount
CsvLocalized ==
    Csv(<<"Date", "Description", "Catégorie", "Montant", "Type", "Notes">>,
        << <<TBadDate, Ta, Tb, T1, Income, Empty>>,
           <<TDmy, Empty, Empty, T2p5, Bonus, Tn>>,
           << >>,
           <<isoformat(D2), Ta, Tb, TNeg, Empty, Empty>> >>)

\* English header without a type column: a bad amount, then a good row
CsvNoType ==
    Csv(<<"date", "amount">>,
        << <<isoformat(D2), Tabc>>, <<isoformat(D1), T2p5>> >>)

\* lines shorter than the header: no amount cell, then a full line, then no
\* type cell
CsvShort ==
    Csv(<<"Date", "Montant", "Type">>,
        << <<isoformat(D2)>>, <<isoformat(D1), T1, TIncomeCap>>,
           <<isoformat(D2), T2>> >>)

CsvDocs == {CsvLocalized, CsvNoType, CsvShort}

\* what storage_path holds when the store is constructed; dataDir tells
\* whether the directory of storage_path exists (save creates it)
StartFiles == {NoFile, File(DocDefaults), File(DocBadBudget)}

\* month arguments of the queries
Months == {None, Str(Empty), Str(month_key(D1)), Str(month_key(D2))}

(***************************************************************************)
(* The store as a state machine                                            *)
(***************************************************************************)
VARIABLES transactions, budgets, storage, dataDir, csvFile, nextId, lastOp, ops

vars == <<transactions, budgets, storage, dataDir, csvFile, nextId, lastOp, ops>>

\* the last operation run: its name, how it ended, and the count it returned
\* (import_csv; 0 for the operations that return none)
Op(name, result) == [op |-> name, result |-> result, added |-> 0]

IdsOf(xs) == {xs[i].id : i \in 1..Len(xs)}

\* identifiers a caller may pass: those held, and one nobody holds
TrxTargets == IdsOf(transactions) \cup {Tzz}
BudTargets == IdsOf(budgets) \cup {Tzz}

\* files import_json may be given: one somebody else wrote, or the
\* store's own backing document
ImportableFiles == {File(d) : d \in Docs} \cup (IF storage.exists THEN {storage} ELSE {})

\* CSV files import_csv may be given: one somebody else wrote, or the last
\* one export_csv wrote
ImportableCsvs == CsvDocs \cup (IF csvFile.exists THEN {csvFile.doc} ELSE {})

\* the store after an operation that answered r
TrxOutcome(name, r) ==
    /\ transactions' = r.transactions
    /\ lastOp' = Op(name, r.result)

BudOutcome(name, r) ==
    /\ budgets' = r.budgets
    /\ lastOp' = Op(name, r.result)

StoreOutcome(name, r) ==
    /\ transactions' = r.transactions
    /\ budgets' = r.budgets
    /\ nextId' = r.nid
    /\ lastOp' = Op(name, r.result)

\* the store after import_csv answered r: the count is returned unless the
\* import raised
CsvOutcome(r) ==
    /\ transactions' = r.transactions
    /\ nextId' = r.nid
    /\ lastOp' = [Op("import_csv", r.result) EXCEPT
                     !.added = IF r.result = "ok" THEN r.added ELSE 0]

\* BudgetData(storage_path)
Init ==
    /\ transactions = << >>
    /\ budgets = << >>
    /\ storage \in StartFiles
    /\ dataDir \in BOOLEAN
    /\ storage.exists => dataDir
    /\ csvFile = NoFile
    /\ nextId = 1
    /\ lastOp = Op("init", "ok")
    /\ ops = 0

AddTransaction ==
    /\ ops < MaxOps
    /\ \E a \in TrxInputs :
          TrxOutcome("add_transaction", add_transaction(transactions, nextId, a))
    /\ nextId' = nextId + 1
    /\ ops' = ops + 1
    /\ UNCHANGED dataDir
    /\ UNCHANGED csvFile
    /\ UNCHANGED <<budgets, storage>>

UpdateTransaction ==
    /\ ops < MaxOps
    /\ \E trx_id \in TrxTargets, updates \in TrxUpdates :
          TrxOutcome("update_transaction",
                     update_transaction(transactions, trx_id, updates))
    /\ ops' = ops + 1
    /\ UNCHANGED dataDir
    /\ UNCHANGED csvFile
    /\ UNCHANGED <<budgets, storage, nextId>>

DeleteTransaction ==
    /\ ops < MaxOps
    /\ \E trx_id \in TrxTargets :
          /\ transactions' = delete_transaction(transactions, trx_id)
          /\ lastOp' = Op("delete_transaction",
                          IF trx_id \in IdsOf(transactions) THEN "ok" ELSE "absent")
    /\ ops' = ops + 1
    /\ UNCHANGED dataDir
    /\ UNCHANGED csvFile
    /\ UNCHANGED <<budgets, storage, nextId>>

GetTransaction ==
    /\ ops < MaxOps
    /\ \E trx_id \in TrxTargets :
          lastOp' = Op("get_transaction",
                       IF get_transaction(transactions, trx_id) = 0 THEN "None" ELSE "found")
    /\ ops' = ops + 1
    /\ UNCHANGED dataDir
    /\ UNCHANGED csvFile
    /\ UNCHANGED <<transactions, budgets, storage, nextId>>

AddBudget ==
    /\ ops < MaxOps
    /\ \E a \in BudInputs :
          BudOutcome("add_budget", add_budget(budgets, nextId, a))
    /\ nextId' = nextId + 1
    /\ ops' = ops + 1
    /\ UNCHANGED dataDir
    /\ UNCHANGED csvFile
    /\ UNCHANGED <<transactions, storage>>

UpdateBudget ==
    /\ ops < MaxOps
    /\ \E budget_id \in BudTargets, a \in BudUpdates :
          BudOutcome("update_budget", update_budget(budgets, budget_id, a))
    /\ ops' = ops + 1
    /\ UNCHANGED dataDir
    /\ UNCHANGED csvFile
    /\ UNCHANGED <<transactions, storage, nextId>>

DeleteBudget ==
    /\ ops < MaxOps
    /\ \E budget_id \in BudTargets :
          /\ budgets' = delete_budget(budgets, budget_id)
          /\ lastOp' = Op("delete_budget",
                          IF budget_id \in IdsOf(budgets) THEN "ok" ELSE "absent")
    /\ ops' = ops + 1
    /\ UNCHANGED dataDir
    /\ UNCHANGED csvFile
    /\ UNCHANGED <<transactions, storage, nextId>>

GetBudget ==
    /\ ops < MaxOps
    /\ \E budget_id \in BudTargets :
          lastOp' = Op("get_budget",
                       IF get_budget(budgets, budget_id) = 0 THEN "None" ELSE "found")
    /\ ops' = ops + 1
    /\ UNCHANGED dataDir
    /\ UNCHANGED csvFile
    /\ UNCHANGED <<transactions, budgets, storage, nextId>>

Load ==
    /\ ops < MaxOps
    /\ StoreOutcome("load", load(transactions, budgets, storage, nextId))
    /\ ops' = ops + 1
    /\ UNCHANGED dataDir
    /\ UNCHANGED csvFile
    /\ UNCHANGED storage

\* save() creates the directory of storage_path before it writes
Save ==
    /\ ops < MaxOps
    /\ storage' = save(transactions, budgets).file
    /\ dataDir' = TRUE
    /\ lastOp' = Op("save", save(transactions, budgets).result)
    /\ ops' = ops + 1
    /\ UNCHANGED csvFile
    /\ UNCHANGED <<transactions, budgets, nextId>>

ImportJson ==
    /\ ops < MaxOps
    /\ \E file \in ImportableFiles :
          StoreOutcome("import_json", import_json(transactions, budgets, file, nextId))
    /\ ops' = ops + 1
    /\ UNCHANGED dataDir
    /\ UNCHANGED csvFile
    /\ UNCHANGED storage

\* export_json(path) with path = storage_path: write_text creates no
\* directory and raises FileNotFoundError when that of the path is missing
ExportJson ==
    /\ ops < MaxOps
    /\ storage' = export_json(transactions, budgets, dataDir, storage).file
    /\ lastOp' = Op("export_json",
                    export_json(transactions, budgets, dataDir, storage).result)
    /\ ops' = ops + 1
    /\ UNCHANGED dataDir
    /\ UNCHANGED csvFile
    /\ UNCHANGED <<transactions, budgets, nextId>>

ImportCsv ==
    /\ ops < MaxOps
    /\ \E file \in ImportableCsvs :
          CsvOutcome(import_csv(transactions, file, nextId))
    /\ ops' = ops + 1
    /\ UNCHANGED dataDir
    /\ UNCHANGED <<budgets, storage, csvFile>>

\* export_csv(path), path being a file of a directory that exists
ExportCsv ==
    /\ ops < MaxOps
    /\ csvFile' = File(export_csv(transactions).csv)
    /\ lastOp' = Op("export_csv", export_csv(transactions).result)
    /\ ops' = ops + 1
    /\ UNCHANGED dataDir
    /\ UNCHANGED <<transactions, budgets, storage, nextId>>

Next ==
    \/ AddTransaction
    \/ UpdateTransaction
    \/ DeleteTransaction
    \/ GetTransaction
    \/ AddBudget
    \/ UpdateBudget
    \/ DeleteBudget
    \/ GetBudget
    \/ Load
    \/ Save
    \/ ImportJson
    \/ ExportJson
    \/ ImportCsv
    \/ ExportCsv

Spec == Init /\ [][Next]_vars

(***************************************************************************)
(* Properties                                                              *)
(***************************************************************************)
\* the run has an operation left: the claims about what an operation does to
\* the store it is applied to are checked in the states where one can run
Running == ops < MaxOps

SortedTrx(trxs) == \A i \in 1..(Len(trxs) - 1) : ~TrxKeyLT(trxs[i + 1], trxs[i])

SortedBud(buds) == \A i \in 1..(Len(buds) - 1) : ~BudKeyLT(buds[i + 1], buds[i])

Count(xs, x) == Cardinality({i \in 1..Len(xs) : xs[i] = x})

\* the two lists hold the same elements, each as many times
SameBag(xs, ys) ==
    /\ Len(xs) = Len(ys)
    /\ \A i \in 1..Len(xs) : Count(xs, xs[i]) = Count(ys, xs[i])

\* every element of xs is in ys at least as many times
SubBag(xs, ys) == \A i \in 1..Len(xs) : Count(xs, xs[i]) <= Count(ys, xs[i])

\* C1: in every reachable state the transaction collection is sorted
\* ascending by (date, description).
C1_TransactionsSorted == SortedTrx(transactions)

\* C2: in every reachable state the budget collection is sorted by category
\* compared case-insensitively.
C2_BudgetsSorted == SortedBud(budgets)

\* C3: every held transaction has amount >= 0, and its signed_amount equals
\* its amount if and only if its type is income.
C3_AmountNonNegative ==
    \A i \in 1..Len(transactions) :
        LET t == transactions[i]
        IN  /\ Val(t.amount) >= 0
            /\ (Val(signed_amount(t)) = Val(t.amount)) <=> (t.type = Income)

\* C4: for every month key, None included, the balance of monthly_summary is
\* its incomes minus its expenses.
C4_BalanceIsIncomesMinusExpenses ==
    \A month \in Months :
        LET summary == monthly_summary(transactions, month)
        IN  summary.balance = summary.incomes - summary.expenses

\* C5: for every month key, None included, every row of budget_analysis has
\* its ratio in [0, 1] and a negative remaining exactly when spent exceeds
\* the budget's monthly_limit.
C5_RatioInUnitInterval ==
    \A month \in Months :
        LET rows == budget_analysis(transactions, budgets, month)
        IN  \A i \in 1..Len(rows) :
                /\ Val(rows[i].ratio.n) >= 0
                /\ Val(rows[i].ratio.n) <= rows[i].ratio.d
                /\ (Val(rows[i].remaining) < 0)
                      <=> (rows[i].spent > Val(rows[i].budget.monthly_limit))

\* export_json of the current store A to a path of a directory that exists
Exported == export_json(transactions, budgets, TRUE, NoFile)

\* the file it wrote, imported into an empty store B
RoundTrip == import_json(<< >>, << >>, Exported.file, nextId)

\* C6: export_json followed by import_json into an empty store yields as
\* many transactions and budgets, each equal field for field to the
\* original.
C6_RoundTripExact ==
    /\ Exported.result = "ok"
    /\ RoundTrip.result = "ok"
    /\ SameBag(RoundTrip.transactions, transactions)
    /\ SameBag(RoundTrip.budgets, budgets)

\* C7: a successful import_json of a document with m transactions and k
\* budgets into a store of n transactions and j budgets leaves n+m
\* transactions and j+k budgets, every entity held before still present
\* unchanged, and the result is exactly the old entities plus the
\* document's, an id already held being kept a second time; for every store
\* the run can still operate on.
C7_ImportAppends ==
    Running => \A file \in ImportableFiles :
        LET r == import_json(transactions, budgets, file, nextId)
            ts == TrxFromDicts(Get(file.doc, "transactions", << >>), nextId)
            bs == BudFromDicts(Get(file.doc, "budgets", << >>), ts.nid)
        IN  r.result = "ok" =>
              /\ Len(r.transactions)
                    = Len(transactions) + Len(Get(file.doc, "transactions", << >>))
              /\ Len(r.budgets) = Len(budgets) + Len(Get(file.doc, "budgets", << >>))
              /\ SubBag(transactions, r.transactions)
              /\ SubBag(budgets, r.budgets)
              /\ SameBag(r.transactions, transactions \o ts.items)
              /\ SameBag(r.budgets, budgets \o bs.items)

\* an import has just succeeded and the store holds one id twice
C7_Witness ==
    /\ lastOp = Op("import_json", "ok")
    /\ \E i, j \in 1..Len(transactions) : i # j /\ transactions[i].id = transactions[j].id
    /\ \E i, j \in 1..Len(budgets) : i # j /\ budgets[i].id = budgets[j].id

\* C8: delete_transaction of an id nobody holds changes neither collection,
\* and deleting the same id twice leaves the store as deleting it once.
C8_DeleteIdempotent ==
    /\ [](\A trx_id \in TrxTargets :
            LET once == delete_transaction(transactions, trx_id)
            IN  /\ trx_id \notin IdsOf(transactions) => once = transactions
                /\ trx_id \notin IdsOf(once)
                /\ delete_transaction(once, trx_id) = once)
    /\ [][lastOp'.op = "delete_transaction" =>
            /\ budgets' = budgets
            /\ lastOp'.result = "absent" => transactions' = transactions]_vars

\* a delete of an absent id has just run on a store that holds transactions
C8_Witness ==
    /\ lastOp = Op("delete_transaction", "absent")
    /\ transactions # << >>

\* C9: update_transaction and update_budget with an id nobody holds fail
\* with KeyError and change neither collection; get_transaction and
\* get_budget with such an id return None.
C9_UnknownIdNotFound ==
    /\ [](/\ \A updates \in TrxUpdates :
               LET r == update_transaction(transactions, Tzz, updates)
               IN  r.result = "KeyError" /\ r.transactions = transactions
           /\ \A a \in BudUpdates :
               LET rb == update_budget(budgets, Tzz, a)
               IN  rb.result = "KeyError" /\ rb.budgets = budgets
           /\ get_transaction(transactions, Tzz) = 0
           /\ get_budget(budgets, Tzz) = 0)
    /\ [][(lastOp'.op \in {"update_transaction", "update_budget"}
            /\ lastOp'.result = "KeyError") =>
              (transactions' = transactions /\ budgets' = budgets)]_vars
    /\ [][lastOp'.op \in {"get_transaction", "get_budget"} =>
              (transactions' = transactions /\ budgets' = budgets)]_vars

\* an update of an unknown id has just failed on a store that holds both
C9_Witness ==
    /\ lastOp \in {Op("update_transaction", "KeyError"), Op("update_budget", "KeyError")}
    /\ transactions # << >>
    /\ budgets # << >>

\* the fields of a transaction that the keyword arguments supply
SuppliedTrxFields(updates) ==
    {f \in {"description", "category", "amount", "notes"} : f \in DOMAIN updates}
    \cup (IF "date" \in DOMAIN updates \/ "date_value" \in DOMAIN updates
          THEN {"date"} ELSE {})
    \cup (IF "type" \in DOMAIN updates \/ "type_" \in DOMAIN updates
          THEN {"type"} ELSE {})

SuppliedBudFields(a) ==
    (IF a.category.k # "none" THEN {"category"} ELSE {})
    \cup (IF a.monthly_limit.k # "none" THEN {"monthly_limit"} ELSE {})

\* C10: a successful update_transaction changes only the supplied fields of
\* the transaction it targets (its id and the other fields keep their
\* values), no other transaction and no budget; a successful update_budget
\* likewise changes only the supplied fields of one budget and no
\* transaction; for every store the run can still operate on.
C10_UpdateFrame ==
    /\ [](Running =>
           /\ \A trx_id \in IdsOf(transactions), updates \in TrxUpdates :
               \A r \in {update_transaction(transactions, trx_id, updates)},
                  i \in {get_transaction(transactions, trx_id)} :
                  r.result = "ok" =>
                     /\ Len(r.transactions) = Len(transactions)
                     /\ \A j \in 1..Len(transactions) :
                           j # i => r.transactions[j] = transactions[j]
                     /\ r.transactions[i].id = trx_id
                     /\ \A f \in {"date", "description", "category", "amount",
                                   "type", "notes"} \ SuppliedTrxFields(updates) :
                           r.transactions[i][f] = transactions[i][f]
           /\ \A budget_id \in IdsOf(budgets), a \in BudUpdates :
               \A rb \in {update_budget(budgets, budget_id, a)},
                  ib \in {get_budget(budgets, budget_id)} :
                  rb.result = "ok" =>
                     /\ Len(rb.budgets) = Len(budgets)
                     /\ \A j \in 1..Len(budgets) : j # ib => rb.budgets[j] = budgets[j]
                     /\ rb.budgets[ib].id = budget_id
                     /\ \A f \in {"category", "monthly_limit"} \ SuppliedBudFields(a) :
                           rb.budgets[ib][f] = budgets[ib][f])
    /\ [][lastOp'.op = "update_transaction" => budgets' = budgets]_vars
    /\ [][lastOp'.op = "update_budget" => transactions' = transactions]_vars

\* an update has just succeeded on a store with two transactions and a budget
C10_Witness ==
    /\ lastOp = Op("update_transaction", "ok")
    /\ Len(transactions) >= 2
    /\ budgets # << >>

\* what a store that holds nothing loads from storage_path
FreshLoad == load(<< >>, << >>, storage, nextId)

\* C11: load changes neither collection when the backing document does not
\* exist; when it exists and load succeeds, the store holds exactly the
\* document's entities, one per element and in the document's order, whatever
\* it held before.
C11_LoadReplaces ==
    /\ [](\A r \in {load(transactions, budgets, storage, nextId)} :
            /\ (r.result = "ok" /\ storage.exists) =>
                  \A f \in {FreshLoad} :
                     /\ r.transactions = f.transactions
                     /\ r.budgets = f.budgets
                     /\ Len(f.transactions)
                          = Len(Get(storage.doc, "transactions", << >>))
                     /\ Len(f.budgets) = Len(Get(storage.doc, "budgets", << >>))
            /\ ~storage.exists =>
                  /\ r.result = "ok"
                  /\ r.transactions = transactions
                  /\ r.budgets = budgets)
    /\ [][lastOp' = Op("load", "ok") =>
            IF storage.exists
            THEN transactions' = FreshLoad.transactions /\ budgets' = FreshLoad.budgets
            ELSE transactions' = transactions /\ budgets' = budgets]_vars

\* a load of an existing document has just succeeded on a store that had
\* drawn an identifier which it no longer holds
C11_Witness ==
    /\ lastOp = Op("load", "ok")
    /\ storage.exists
    /\ transactions # << >>
    /\ budgets # << >>
    /\ \E n \in 1..(nextId - 1) : Uuid(n) \notin IdsOf(transactions) \cup IdsOf(budgets)

\* the lines of a CSV file whose date and amount both parse
ParsableLines(file) ==
    {i \in 1..Len(file.rows) :
        /\ file.rows[i] # << >>
        /\ ~Skipped(RowGet(DictRow(file.header, file.rows[i]), "Date", "date", Str(Empty)),
                    RowGet(DictRow(file.header, file.rows[i]), "Montant", "amount", Num(0)))}

\* C12: for every CSV file, import_csv returns, having skipped the lines
\* whose date or amount does not parse and processed the others: the count
\* it returns is the number of lines whose date and amount parse, the
\* transaction collection grows by that count, and budgets are unchanged.
C12_CsvSkipsBadRows ==
    /\ [](\A file \in ImportableCsvs :
            \A r \in {import_csv(transactions, file, nextId)} :
                /\ r.result = "ok"
                /\ r.added = Cardinality(ParsableLines(file))
                /\ Len(r.transactions) = Len(transactions) + r.added)
    /\ [][lastOp'.op = "import_csv" => budgets' = budgets]_vars

\* the value of a line's type column; None when the header has no such
\* column or the line is too short to have the cell
TypeCell(header, line) == RowGet(DictRow(header, line), "Type", "type", None)

\* C13: for every line of a CSV file that import_csv accepts and whose type
\* column is missing or holds something other than income / expense, the
\* transaction imported from that line alone has type income when the
\* line's amount is >= 0 and expense when it is negative, and holds the
\* absolute value of the amount.
C13_TypeBySign ==
    \A file \in ImportableCsvs : \A i \in ParsableLines(file) :
        \A r \in {import_csv(<< >>, Csv(file.header, <<file.rows[i]>>), nextId)},
           amount \in {Float(RowGet(DictRow(file.header, file.rows[i]),
                                    "Montant", "amount", Num(0)))},
           type_ \in {TypeCell(file.header, file.rows[i])} :
            (/\ r.result = "ok"
             /\ type_.k # "str" \/ Lower(type_.s) \notin {Income, Expense}) =>
                /\ Len(r.transactions) = 1
                /\ r.transactions[1].amount = Abs(amount.v)
                /\ r.transactions[1].type = IF amount.ge0 THEN Income ELSE Expense

\* export_csv of the current store A, imported into an empty store B
CsvExported == export_csv(transactions)

\* the file it wrote, imported into an empty store B
CsvRoundTrip == import_csv(<< >>, CsvExported.csv, nextId)

\* a list of transactions, ids aside and amounts by magnitude
Magnitudes(trxs) ==
    [i \in 1..Len(trxs) |->
        [trxs[i] EXCEPT !.id = Empty, !.amount = Abs(trxs[i].amount)]]

\* C14: export_csv followed by import_csv into an empty store yields as many
\* transactions, matching the originals one for one in date, description,
\* category, amount magnitude, type and notes.
C14_CsvRoundTrip ==
    /\ CsvExported.result = "ok"
    /\ CsvRoundTrip.result = "ok"
    /\ SameBag(Magnitudes(CsvRoundTrip.transactions), Magnitudes(transactions))

\* C15: in every reachable state every held transaction has type income or
\* expense.
C15_TypeEnumerated ==
    \A i \in 1..Len(transactions) : transactions[i].type \in {Income, Expense}

\* C16: in every reachable state no held transaction and no held budget has
\* an empty or blank category.
C16_CategoryNeverBlank ==
    /\ \A i \in 1..Len(transactions) : Strip(transactions[i].category) # Empty
    /\ \A i \in 1..Len(budgets) : Strip(budgets[i].category) # Empty

\* the ids of a list, position by position
IdList(xs) == [i \in 1..Len(xs) |-> xs[i].id]

\* C17: in every reachable state no two held transactions share an id; an
\* add assigns an id that no held transaction has; an update changes no id.
C17_IdsUnique ==
    /\ [](\A i, j \in 1..Len(transactions) :
            transactions[i].id = transactions[j].id => i = j)
    /\ [][lastOp' = Op("add_transaction", "ok") =>
            Uuid(nextId) \notin IdsOf(transactions)]_vars
    /\ [][lastOp'.op = "update_transaction" =>
            IdList(transactions') = IdList(transactions)]_vars

\* the sum of the amounts of the expense transactions of items in a category
RECURSIVE SumExpenses(_, _)
SumExpenses(items, category) ==
    IF items = << >> THEN 0
    ELSE (IF Head(items).type = Expense /\ Head(items).category = category
          THEN Val(Head(items).amount) ELSE 0)
         + SumExpenses(Tail(items), category)

\* C18: for every month key, None included, budget_analysis returns one row
\* per held budget, sorted by category case-insensitively; each row's spent
\* is the sum of the amounts of the expense transactions in scope whose
\* category is exactly the budget's, and its remaining is the budget's
\* monthly_limit minus spent.
C18_AnalysisRows ==
    \A month \in Months :
        \A rows \in {budget_analysis(transactions, budgets, month)} :
            /\ SameBag([i \in 1..Len(rows) |-> rows[i].budget], budgets)
            /\ \A i \in 1..(Len(rows) - 1) :
                  ~BudKeyLT(rows[i + 1].budget, rows[i].budget)
            /\ \A i \in 1..Len(rows) :
                  /\ rows[i].spent =
                        SumExpenses(transactions_for_month(transactions, month),
                                    rows[i].budget.category)
                  /\ Val(rows[i].remaining)
                        = Val(rows[i].budget.monthly_limit) - rows[i].spent

\* the month keys present among the held transactions
MonthsHeld == {month_key(transactions[i].date) : i \in 1..Len(transactions)}

\* C19: monthly_balances returns one entry per distinct month key present
\* among the held transactions, in strictly ascending key order, the value
\* of each being the balance monthly_summary gives for that key.
C19_MonthlyBalances ==
    \A mb \in {monthly_balances(transactions)} :
        /\ Len(mb) = Cardinality(MonthsHeld)
        /\ {mb[i][1] : i \in 1..Len(mb)} = MonthsHeld
        /\ \A i \in 1..(Len(mb) - 1) : StrLT(mb[i][1], mb[i + 1][1])
        /\ \A i \in 1..Len(mb) :
              mb[i][2] = monthly_summary(transactions, Str(mb[i][1])).balance

\* a store with transactions in two months, one of them holding an income
\* and an expense
C19_Witness ==
    /\ Cardinality(MonthsHeld) = 2
    /\ \E i, j \in 1..Len(transactions) :
          /\ transactions[i].date = transactions[j].date
          /\ transactions[i].type = Income
          /\ transactions[j].type = Expense
          /\ Val(transactions[j].amount) # 0

\* the sum of the values of a dict of totals
RECURSIVE SumValues(_, _)
SumValues(totals, keys) ==
    IF keys = {} THEN 0
    ELSE SumValues(totals, keys \ {CHOOSE k \in keys : TRUE})
         + totals[CHOOSE k \in keys : TRUE]

\* C20: for every month key, None included, the values of
\* category_totals(key, for_expenses=True) add up to monthly_summary(key)'s
\* expenses and those of category_totals(key, for_expenses=False) to its
\* incomes.
C20_TotalsMatchSummary ==
    \A month \in Months :
        \A e \in {category_totals(transactions, month, TRUE)},
           n \in {category_totals(transactions, month, FALSE)},
           summary \in {monthly_summary(transactions, month)} :
            /\ SumValues(e, DOMAIN e) = summary.expenses
            /\ SumValues(n, DOMAIN n) = summary.incomes

\* C21: an update_transaction that raises on an invalid field (an
\* unparseable date, a non-numeric amount) leaves the targeted transaction,
\* and so the whole collection, as it was before the call.
C21_UpdateAllOrNothing ==
    /\ [](\A trx_id \in IdsOf(transactions), updates \in TrxUpdates :
            \A r \in {update_transaction(transactions, trx_id, updates)} :
                r.result \in {"ValueError", "TypeError"} =>
                    r.transactions = transactions)
    /\ [][(lastOp'.op = "update_transaction"
            /\ lastOp'.result \in {"ValueError", "TypeError"}) =>
              transactions' = transactions]_vars

\* C22: a load or an import_json that fails on a malformed document leaves
\* the transaction collection and the budget collection as they were before
\* the call.
C22_FailedReadChangesNothing ==
    /\ [](/\ \A r \in {load(transactions, budgets, storage, nextId)} :
               r.result # "ok" =>
                   r.transactions = transactions /\ r.budgets = budgets
           /\ \A file \in ImportableFiles :
               \A ri \in {import_json(transactions, budgets, file, nextId)} :
                   ri.result # "ok" =>
                       ri.transactions = transactions /\ ri.budgets = budgets)
    /\ [][(lastOp'.op \in {"load", "import_json"} /\ lastOp'.result # "ok") =>
              (transactions' = transactions /\ budgets' = budgets)]_vars

====
